---------------------------- MODULE Spec2Model ----------------------------
(***************************************************************************)
(* Model of the mjolnir deck builder (src/commands/deck_builder.py).       *)
(*                                                                         *)
(* A run of Builder.__call__ walks the parsed document (the sequence of    *)
(* block elements python-markdown produces), builds the Deck / SubDeck /   *)
(* Card records, creates the output directory and exports a package.       *)
(* Strings are sequences of one-character strings, so that formatting and  *)
(* sanitising are computed character by character.                         *)
(***************************************************************************)
EXTENDS Integers, Sequences, FiniteSets, TLC

\* ------------------------------------------------------------------ bounds
MaxBlocks == 4       \* blocks of a document besides its level-1 headings
IdSpace == 2         \* size of the range secrets.randbelow draws from
MaxItems == 3        \* child nodes of a list fragment
MaxLetters == 1      \* letters at the start of a list item's text
MaxNewlines == 4     \* newlines at the end of a list item's text

\* --------------------------------------------------------------- constants
IdBase == 999999999

VARIABLES
    doc,         \* self.soup: the blocks of the parsed document, in order
    pc,          \* where the run of Builder.__call__ stands
    deck,        \* the Deck built by build_deck, with its sub-decks
    dist,        \* the path "dist": "absent", "dir" or "file"
    created,     \* os.mkdir("dist") has been executed by this run
    files,       \* the files the run has written
    anki_model,  \* the identifier of the genanki.Model, 0 before export
    inspected,   \* the positions of the headings handed to create_note
    err,         \* the exception that ended the run, "none" otherwise
    ul,          \* the argument of a call of format_ul
    formatted,   \* its result
    fpc          \* where that call stands

vars == <<doc, pc, deck, dist, created, files,
          anki_model, inspected, err, ul, formatted, fpc>>

runVars == <<doc, pc, deck, dist, created, files,
             anki_model, inspected, err>>

fmtVars == <<ul, formatted, fpc>>

\* ----------------------------------------------------------------- strings
NL == "\n"

TAB == "\t"

SeqsUpTo(S, n) == UNION {[1..k -> S] : k \in 0..n}

\* str.removesuffix: drop suf from the end of s when s ends with it
removesuffix(s, suf) ==
    IF /\ Len(s) >= Len(suf)
       /\ SubSeq(s, Len(s) - Len(suf) + 1, Len(s)) = suf
    THEN SubSeq(s, 1, Len(s) - Len(suf))
    ELSE s

\* str.lower on the characters that occur in the model
lower(c) ==
    CASE c = "M" -> "m"
      [] c = "D" -> "d"
      [] c = "S" -> "s"
      [] c = "Q" -> "q"
      [] OTHER -> c

\* str.replace(" ", "-") followed by str.lower
file_name(name) ==
    [i \in 1..Len(name) |-> lower(IF name[i] = " " THEN "-" ELSE name[i])]

\* ----------------------------------------------------------- list fragment
\* A fragment is what create_note hands to format_ul: absent (None) or the
\* child nodes of the <ul>, each an <li> tag or a bare string.
NoFragment == [absent |-> TRUE, children |-> <<>>]

Fragment(children) == [absent |-> FALSE, children |-> children]

\* ul.find("li"): index of the first <li>, 0 when there is none
find_li(children) ==
    IF \E i \in 1..Len(children) : children[i].tag = "li"
    THEN CHOOSE i \in 1..Len(children) :
            /\ children[i].tag = "li"
            /\ \A j \in 1..(i - 1) : children[j].tag # "li"
    ELSE 0

IsLi(c) == c.tag = "li"

\* top_level.find_next_siblings("li")
find_next_sibling_lis(children, i) ==
    SelectSeq(SubSeq(children, i + 1, Len(children)), IsLi)

\* ul.find_all("li")
find_all_lis(children) == SelectSeq(children, IsLi)

RECURSIVE sub_notes(_)
\* the loop of lines 160-161
sub_notes(lis) ==
    IF lis = <<>> THEN <<>>
    ELSE <<TAB, "-", " ">> \o Head(lis).text \o <<NL>> \o sub_notes(Tail(lis))

RECURSIVE top_notes(_)
\* the loop of lines 163-167
top_notes(lis) ==
    IF lis = <<>> THEN <<>>
    ELSE Head(lis).text \o <<NL>> \o top_notes(Tail(lis))

\* format_ul with the sub-note loop run over every <li> of the list instead
\* of the siblings of the first one
format_ul_all_items(frag) ==
    IF frag.absent THEN <<>>
    ELSE LET top_level == find_li(frag.children) IN
         IF top_level # 0
         THEN removesuffix(frag.children[top_level].text, <<NL, NL, NL>>)
                 \o <<NL>>
                 \o sub_notes(find_all_lis(frag.children))
         ELSE top_notes(find_all_lis(frag.children))

format_ul(frag) ==
    IF frag.absent THEN <<>>
    ELSE LET top_level == find_li(frag.children) IN
         IF top_level # 0
         THEN removesuffix(frag.children[top_level].text, <<NL, NL, NL>>)
                 \o <<NL>>
                 \o sub_notes(find_next_sibling_lis(frag.children, top_level))
         ELSE top_notes(find_all_lis(frag.children))

\* ---------------------------------------------------------------- document
Digits == <<"1", "2", "3", "4", "5", "6", "7", "8", "9">>

Li(text) == [tag |-> "li", text |-> text]

Str(text) == [tag |-> "str", text |-> text]

Shapes == {"h2", "h3", "ul_empty", "ul_items"}

\* The element of a given shape at position i.  Texts carry the position so
\* that every heading and every list of a document is distinguishable.
\* Blocks that are neither headings nor lists are skipped by every loop of
\* the walker exactly as a list is skipped by parse_notes and a heading by
\* find_next_sibling("ul"), and are left out.
Element(shape, i) ==
    CASE shape = "h1" ->
            [tag |-> "h1", text |-> <<"M", "y", " ", "D", Digits[i]>>,
             children |-> <<>>]
      [] shape = "h2" ->
            [tag |-> "h2", text |-> <<"S", Digits[i]>>, children |-> <<>>]
      [] shape = "h3" ->
            [tag |-> "h3", text |-> <<"Q", Digits[i]>>, children |-> <<>>]
      [] shape = "ul_empty" ->
            [tag |-> "ul", text |-> <<>>, children |-> <<>>]
      [] shape = "ul_items" ->
            [tag |-> "ul", text |-> <<"a", Digits[i], NL, "b", Digits[i]>>,
             children |-> <<Li(<<"a", Digits[i]>>), Str(<<NL>>),
                            Li(<<"b", Digits[i]>>)>>]

\* The documents: sub-deck headings, card headings and lists in any order,
\* with a level-1 heading in front of them, behind them, at both ends or
\* nowhere.
Titles == {<<>>, <<"h1">>}

Documents ==
    {[i \in 1..Len(front \o shapes \o back) |->
         Element((front \o shapes \o back)[i], i)] :
        front \in Titles, back \in Titles,
        shapes \in SeqsUpTo(Shapes, MaxBlocks)}

Positions == 1..Len(doc)

\* soup.find(tag): first element with that tag, 0 when there is none
find(tag) ==
    IF \E i \in Positions : doc[i].tag = tag
    THEN CHOOSE i \in Positions :
            /\ doc[i].tag = tag
            /\ \A j \in 1..(i - 1) : doc[j].tag # tag
    ELSE 0

RECURSIVE positions_from(_, _)
\* positions lo..Len(doc) with the tag, in document order
positions_from(lo, tag) ==
    IF lo > Len(doc) THEN <<>>
    ELSE (IF doc[lo].tag = tag THEN <<lo>> ELSE <<>>)
            \o positions_from(lo + 1, tag)

\* soup.find_all(tag)
find_all(tag) == positions_from(1, tag)

\* el.find_next_siblings(): the elements after el under the same parent
find_next_siblings(p) == [k \in 1..(Len(doc) - p) |-> p + k]

\* the sibling pass as it would run were the soup object an element placed
\* before the document's blocks
soup_find_next_siblings_as_element(tag) == find_all(tag)

\* self.soup.find_next_siblings("h2"): the soup object is the root of the
\* tree, it has no parent and therefore no siblings
soup_find_next_siblings(tag) == <<>>

\* el.find_next_sibling("ul"): the first <ul> anywhere after el, 0 if none
find_next_sibling(p, tag) ==
    IF \E q \in (p + 1)..Len(doc) : doc[q].tag = tag
    THEN CHOOSE q \in (p + 1)..Len(doc) :
            /\ doc[q].tag = tag
            /\ \A r \in (p + 1)..(q - 1) : doc[r].tag # tag
    ELSE 0

\* ------------------------------------------------------------- identifiers
\* generate_identifier: 999_999_999 + secrets.randbelow(...)
Identifiers == {IdBase + r : r \in 0..(IdSpace - 1)}

\* ----------------------------------------------------------------- records
NoDeck == [id |-> 0, name |-> <<>>, sub_decks |-> <<>>]

\* create_subdeck: a SubDeck with the heading's text and no cards yet
create_subdeck(h2, id) ==
    [id |-> id, name |-> doc[h2].text, sub_decks |-> <<>>, cards |-> <<>>]

\* create_note: ok = FALSE stands for the raised ValueError
create_note(h3, id) ==
    LET card_information == find_next_sibling(h3, "ul") IN
    IF card_information = 0
    THEN [ok |-> FALSE,
          card |-> [id |-> id, front |-> doc[h3].text, back |-> <<>>,
                    tags |-> <<>>]]
    ELSE [ok |-> TRUE,
          card |-> [id |-> id, front |-> doc[h3].text,
                    back |-> format_ul(Fragment(doc[card_information].children)),
                    tags |-> <<>>]]

RECURSIVE section_h3s_no_break(_)
\* the walk of parse_notes with the break at the next h2 turned into continue
section_h3s_no_break(siblings) ==
    IF siblings = <<>> THEN <<>>
    ELSE IF doc[Head(siblings)].tag # "h3"
    THEN section_h3s_no_break(Tail(siblings))
    ELSE <<Head(siblings)>> \o section_h3s_no_break(Tail(siblings))

RECURSIVE section_h3s(_)
\* The headings parse_notes hands to create_note: walking a list of sibling
\* positions, stop at the first h2, keep the h3s, skip everything else.
section_h3s(siblings) ==
    IF siblings = <<>> THEN <<>>
    ELSE IF doc[Head(siblings)].tag = "h2" THEN <<>>
    ELSE IF doc[Head(siblings)].tag # "h3" THEN section_h3s(Tail(siblings))
    ELSE <<Head(siblings)>> \o section_h3s(Tail(siblings))

\* parse_notes: the notes of the section, or the failure of the first
\* create_note that raises; seen lists the headings handed to create_note
parse_notes(h2, ids) ==
    LET h3s == section_h3s(find_next_siblings(h2))
        made == [j \in 1..Len(h3s) |-> create_note(h3s[j], ids[j])]
        bad == {j \in 1..Len(h3s) : ~made[j].ok}
        stop == IF bad = {} THEN Len(h3s)
                ELSE CHOOSE j \in bad : \A k \in bad : j <= k
    IN [ok |-> bad = {},
        notes |-> [j \in 1..Len(h3s) |-> made[j].card],
        seen |-> {h3s[j] : j \in 1..stop}]

\* the headings build_subdecks visits: the sibling pass, then the full pass
h2_worklist == soup_find_next_siblings("h2") \o find_all("h2")

\* ------------------------------------------------------------ one run
Idle == /\ ul = NoFragment
        /\ formatted = <<>>
        /\ fpc = "idle"

Init ==
    /\ doc \in Documents
    /\ pc = "build_deck"
    /\ deck = NoDeck
    /\ dist \in {"absent", "dir", "file"}
    /\ created = FALSE
    /\ files = {}
    /\ anki_model = 0
    /\ inspected = {}
    /\ err = "none"
    /\ Idle

raise(e) ==
    /\ pc' = "error"
    /\ err' = e

\* build_deck preceded by the directory check of traverse
build_deck_after_mkdir ==
    /\ pc = "build_deck"
    /\ LET h1 == find("h1") IN
       IF h1 = 0
       THEN /\ raise("ValueError")
            /\ UNCHANGED deck
       ELSE \E id \in Identifiers :
            /\ deck' = [id |-> id, name |-> doc[h1].text, sub_decks |-> <<>>]
            /\ pc' = "traverse"
            /\ UNCHANGED err
    /\ IF dist = "absent"
       THEN dist' = "dir" /\ created' = TRUE
       ELSE UNCHANGED <<dist, created>>
    /\ UNCHANGED <<doc, files, anki_model, inspected>>
    /\ UNCHANGED fmtVars

\* traverse, line 261: build_deck
build_deck ==
    /\ pc = "build_deck"
    /\ LET h1 == find("h1") IN
       IF h1 = 0
       THEN /\ raise("ValueError")
            /\ UNCHANGED deck
       ELSE \E id \in Identifiers :
            /\ deck' = [id |-> id, name |-> doc[h1].text, sub_decks |-> <<>>]
            /\ pc' = "traverse"
            /\ UNCHANGED err
    /\ UNCHANGED <<doc, dist, created, files, anki_model,
                   inspected>>
    /\ UNCHANGED fmtVars

\* the cards build_subdecks makes, as <<index in the worklist, index in the
\* section>>: each one draws an identifier
card_slots ==
    {c \in (1..Len(h2_worklist)) \X (1..Len(doc)) :
        c[2] <= Len(section_h3s(find_next_siblings(h2_worklist[c[1]])))}

\* build_subdecks: the sub-decks of the headings of the worklist in order,
\* or the failure of the first parse_notes that raises
build_subdecks(subdeck_ids, card_ids) ==
    LET n == Len(h2_worklist)
        parsed == [k \in 1..n |->
                     parse_notes(h2_worklist[k],
                                 [j \in 1..Len(doc) |->
                                     IF <<k, j>> \in card_slots
                                     THEN card_ids[<<k, j>>] ELSE IdBase])]
        bad == {k \in 1..n : ~parsed[k].ok}
        stop == IF bad = {} THEN n
                ELSE CHOOSE k \in bad : \A m \in bad : k <= m
    IN [ok |-> bad = {},
        subdecks |-> [k \in 1..n |->
                        [create_subdeck(h2_worklist[k], subdeck_ids[k])
                            EXCEPT !.cards = parsed[k].notes]],
        seen |-> UNION {parsed[k].seen : k \in 1..stop}]

\* os.mkdir("dist") unless dist exists and is a directory
mkdir ==
    IF dist = "absent"
    THEN /\ dist' = "dir"
         /\ created' = TRUE
         /\ pc' = "export"
         /\ UNCHANGED err
    ELSE IF dist = "file"
    THEN /\ raise("FileExistsError")
         /\ UNCHANGED <<dist, created>>
    ELSE /\ pc' = "export"
         /\ UNCHANGED <<dist, created, err>>

\* the sub-decks of a walk with the identifiers drawn for them put in place
\* (generate_identifier does not depend on the document)
with_identifiers(built, subdeck_ids, card_ids) ==
    [k \in 1..Len(built) |->
        [built[k] EXCEPT
            !.id = subdeck_ids[k],
            !.cards = [j \in 1..Len(built[k].cards) |->
                          [built[k].cards[j] EXCEPT !.id = card_ids[<<k, j>>]]]]]

\* traverse, lines 264-270: build the sub-decks, add them to the deck, then
\* make the directory
traverse ==
    /\ pc = "traverse"
    /\ \E worklist \in {h2_worklist}, slots \in {card_slots} :
       \E walk \in {build_subdecks([k \in 1..Len(worklist) |-> IdBase],
                                  [c \in slots |-> IdBase])} :
          /\ inspected' = walk.seen
          /\ IF ~walk.ok
             THEN /\ raise("ValueError")
                  /\ UNCHANGED <<deck, dist, created>>
             ELSE /\ \E subdeck_ids \in [1..Len(worklist) -> Identifiers],
                        card_ids \in [slots -> Identifiers] :
                        deck' = [deck EXCEPT !.sub_decks =
                                    with_identifiers(walk.subdecks,
                                                     subdeck_ids, card_ids)]
                  /\ mkdir
    /\ UNCHANGED <<doc, files, anki_model>>
    /\ UNCHANGED fmtVars

\* genanki.Note(model, fields, tags)
anki_note(model, card) ==
    [model |-> model, fields |-> <<card.front, card.back>>,
     tags |-> card.tags]

\* genanki.Deck(subdeck.id, "<deck>::<subdeck>") with its notes added
anki_deck(model, subdeck) ==
    [deck_id |-> subdeck.id,
     name |-> deck.name \o <<":", ":">> \o subdeck.name,
     notes |-> [j \in 1..Len(subdeck.cards) |->
                   anki_note(model, subdeck.cards[j])]]

\* the decks handed to genanki.Package: the loop variable anki_subdeck as
\* the loop leaves it
packaged(model) ==
    <<anki_deck(model, deck.sub_decks[Len(deck.sub_decks)])>>

apkg_path == <<"d", "i", "s", "t", "/">> \o file_name(deck.name)
                \o <<".", "a", "p", "k", "g">>

export ==
    /\ pc = "export"
    /\ \E id \in Identifiers :
          /\ anki_model' = id
          /\ IF deck.sub_decks = <<>>
             THEN /\ raise("UnboundLocalError")
                  /\ UNCHANGED files
             ELSE /\ files' = {f \in files : f.path # apkg_path}
                         \cup {[path |-> apkg_path, decks |-> packaged(id)]}
                  /\ pc' = "done"
                  /\ UNCHANGED err
    /\ UNCHANGED <<doc, deck, dist, created, inspected>>
    /\ UNCHANGED fmtVars

Next == build_deck \/ traverse \/ export

Spec == Init /\ [][Next]_vars

\* ------------------------------------------------ vocabulary of the claims
H2Positions == {p \in Positions : doc[p].tag = "h2"}

H3Positions == {p \in Positions : doc[p].tag = "h3"}

\* the elements of a set of positions in ascending order
Ascending(S) ==
    [i \in 1..Cardinality(S) |->
        CHOOSE x \in S : Cardinality({y \in S : y < x}) = i - 1]

\* the texts of the level-2 headings in document order
H2Texts == [k \in 1..Cardinality(H2Positions) |->
               doc[Ascending(H2Positions)[k]].text]

\* the nearest level-2 heading before q, 0 when there is none
Owner(q) ==
    IF \E p \in H2Positions : p < q
    THEN CHOOSE p \in H2Positions :
            p < q /\ \A r \in H2Positions : r < q => r <= p
    ELSE 0

\* the level-3 headings of the section that the heading at p opens
CardHeadings(p) == {q \in H3Positions : Owner(q) = p}

\* the first heading (level 2 or 3) after q, Len(doc) + 1 when none
NextHeading(q) ==
    IF \E r \in Positions : r > q /\ doc[r].tag \in {"h2", "h3"}
    THEN CHOOSE r \in Positions :
            /\ r > q /\ doc[r].tag \in {"h2", "h3"}
            /\ \A t \in (q + 1)..(r - 1) : doc[t].tag \notin {"h2", "h3"}
    ELSE Len(doc) + 1

\* the first list after q and before the next heading, 0 when none
OwnList(q) ==
    IF \E r \in (q + 1)..(NextHeading(q) - 1) : doc[r].tag = "ul"
    THEN CHOOSE r \in (q + 1)..(NextHeading(q) - 1) :
            /\ doc[r].tag = "ul"
            /\ \A t \in (q + 1)..(r - 1) : doc[t].tag # "ul"
    ELSE 0

\* traverse has returned its deck
Traversed ==
    \/ pc \in {"export", "done"}
    \/ pc = "error" /\ err = "UnboundLocalError"

\* the position of the heading whose text is the given one
HeadingOf(text) == CHOOSE q \in Positions : doc[q].text = text

\* every card of the deck, as <<sub-deck index, card index>>
BuiltCards ==
    {c \in (1..Len(deck.sub_decks)) \X (1..Len(doc)) :
        c[2] <= Len(deck.sub_decks[c[1]].cards)}

CardAt(c) == deck.sub_decks[c[1]].cards[c[2]]

\* the document of the first testable property: one level-1 heading, and
\* every level-3 heading lies in a section and has its own list
Regular ==
    /\ Cardinality({p \in Positions : doc[p].tag = "h1"}) = 1
    /\ \A q \in H3Positions : Owner(q) # 0 /\ OwnList(q) # 0

\* the document passes the structural checks
Structural ==
    /\ \E p \in Positions : doc[p].tag = "h1"
    /\ \A q \in H3Positions : Owner(q) # 0 => OwnList(q) # 0

TheFile == CHOOSE f \in files : TRUE

\* ------------------------------------------------------------------ claims

\* C1: for a regular document with N level-2 headings, the written package
\* contains exactly N sub-decks, the k-th holding one note per card of the
\* k-th sub-deck (question = front, answer = back).
C1_PackageHoldsEverySubdeck ==
    (pc = "done" /\ Regular) =>
        /\ Cardinality(files) = 1
        /\ Len(TheFile.decks) = Cardinality(H2Positions)
        /\ \A k \in 1..Len(TheFile.decks) :
              /\ k <= Len(deck.sub_decks)
              /\ Len(TheFile.decks[k].notes) = Len(deck.sub_decks[k].cards)
              /\ \A j \in 1..Len(TheFile.decks[k].notes) :
                    TheFile.decks[k].notes[j].fields =
                       <<deck.sub_decks[k].cards[j].front,
                         deck.sub_decks[k].cards[j].back>>

\* C2: the deck returned by traverse holds exactly one SubDeck per level-2
\* heading, named by the heading's text, in document order; no heading is
\* collected twice and none is skipped.
C2_OneSubdeckPerHeading ==
    Traversed =>
        [k \in 1..Len(deck.sub_decks) |-> deck.sub_decks[k].name] = H2Texts

C2_Witness ==
    /\ pc = "export"
    /\ Len(deck.sub_decks) >= 2
    /\ Cardinality(H2Positions) >= 2

\* C3: in a successful traversal the cards of the k-th sub-deck are exactly
\* the level-3 headings whose nearest preceding level-2 heading is the k-th
\* one, in document order; a level-3 heading before the first level-2
\* heading is never handed to create_note.
C3_CardsFollowTheirHeading ==
    /\ \A q \in inspected : Owner(q) # 0
    /\ Traversed =>
          /\ Len(deck.sub_decks) = Cardinality(H2Positions)
          /\ \A k \in 1..Len(deck.sub_decks) :
                [j \in 1..Len(deck.sub_decks[k].cards) |->
                    deck.sub_decks[k].cards[j].front]
                = [j \in 1..Cardinality(CardHeadings(Ascending(H2Positions)[k])) |->
                    doc[Ascending(CardHeadings(Ascending(H2Positions)[k]))[j]].text]

C3_Witness ==
    /\ Traversed
    /\ \E q \in H3Positions : Owner(q) = 0
    /\ \E k \in 1..Len(deck.sub_decks) : Len(deck.sub_decks[k].cards) >= 1

\* C4: every card is built from the list that lies between its own heading
\* and the next heading; a heading with no such list makes create_note fail,
\* so no card exists for it and no two cards share a list.
C4_BackFromOwnList ==
    \A c \in BuiltCards :
        LET q == HeadingOf(CardAt(c).front) IN
        /\ OwnList(q) # 0
        /\ CardAt(c).back = format_ul(Fragment(doc[OwnList(q)].children))

\* C5: an error of the tree walk (no level-1 heading, or a card heading with
\* no list) leaves the filesystem as it was and export is never entered; a
\* missing level-1 heading is detected before any sub-deck or card is made.
C5_WalkErrorsPrecedeOutput ==
    /\ (pc = "error" /\ err = "ValueError") =>
          /\ ~created
          /\ files = {}
          /\ anki_model = 0
    /\ (\A p \in Positions : doc[p].tag # "h1") =>
          /\ inspected = {}
          /\ deck = NoDeck

C5_Witness ==
    /\ pc = "error"
    /\ err = "ValueError"
    /\ dist = "absent"
    /\ inspected # {}
    /\ Cardinality(H2Positions) >= 2

\* C6: a run on a document that passes the structural checks, with any
\* number of level-2 headings, ends without error having written exactly
\* the file dist/<sanitised deck name>.apkg, and the directory exists
\* (dist being absent or a directory when the run starts).
C6_StructuralRunWritesOneFile ==
    (Structural /\ dist # "file") =>
        /\ pc # "error"
        /\ pc = "done" =>
              /\ dist = "dir"
              /\ Cardinality(files) = 1
              /\ TheFile.path =
                    <<"d", "i", "s", "t", "/", "m", "y", "-", "d">>
                       \o <<Digits[find("h1")]>>
                       \o <<".", "a", "p", "k", "g">>

\* C9: the identifiers of the deck, the sub-decks, the cards and the note
\* model of one run are pairwise distinct.
RunIds ==
    (IF deck = NoDeck THEN <<>> ELSE <<deck.id>>)
       \o [k \in 1..Len(deck.sub_decks) |-> deck.sub_decks[k].id]
       \o [i \in 1..Cardinality(BuiltCards) |->
             CardAt(CHOOSE c \in BuiltCards :
                       Cardinality({d \in BuiltCards :
                                      \/ d[1] < c[1]
                                      \/ d[1] = c[1] /\ d[2] < c[2]}) = i - 1).id]
       \o (IF anki_model = 0 THEN <<>> ELSE <<anki_model>>)

C9_IdentifiersDistinct ==
    \A i, j \in 1..Len(RunIds) : i # j => RunIds[i] # RunIds[j]

\* C10: every card that is created has a non-empty back.
C10_BackNonEmpty ==
    \A c \in BuiltCards : CardAt(c).back # <<>>

\* ------------------------------------------------- the list formatter
\* item texts: some letters followed by some newlines, and one text with
\* three newlines that are not at its end
Texts == {[i \in 1..(k + m) |-> IF i <= k THEN "a" ELSE NL] :
             k \in 0..MaxLetters, m \in 0..MaxNewlines}
            \cup {<<NL, NL, NL, "a">>}

Nodes == {Li(t) : t \in Texts} \cup {Str(<<NL>>), Str(<<"a">>)}

Fragments == {NoFragment}
                \cup {Fragment(c) : c \in SeqsUpTo(Nodes, MaxItems)}

InitFmt ==
    /\ ul \in Fragments
    /\ formatted = <<>>
    /\ fpc = "call"
    /\ doc = <<>>
    /\ pc = "idle"
    /\ deck = NoDeck
    /\ dist = "absent"
    /\ created = FALSE
    /\ files = {}
    /\ anki_model = 0
    /\ inspected = {}
    /\ err = "none"

call_format_ul ==
    /\ fpc = "call"
    /\ formatted' = format_ul(ul)
    /\ fpc' = "returned"
    /\ UNCHANGED ul
    /\ UNCHANGED runVars

NextFmt == call_format_ul

SpecFmt == InitFmt /\ [][NextFmt]_vars

\* --------------------------------------- claims about the list formatter
\* the texts of the <li> children of the fragment, in order
ItemTexts ==
    LET lis == {i \in 1..Len(ul.children) : ul.children[i].tag = "li"}
    IN [k \in 1..Cardinality(lis) |-> ul.children[Ascending(lis)[k]].text]

RECURSIVE Indented(_, _)
\* the lines "\t- <text>\n" of texts[i], texts[i + 1], ...
Indented(texts, i) ==
    IF i > Len(texts) THEN <<>>
    ELSE <<TAB, "-", " ">> \o texts[i] \o <<NL>> \o Indented(texts, i + 1)

RECURSIVE Plain(_, _)
\* the lines "<text>\n" of texts[i], texts[i + 1], ...
Plain(texts, i) ==
    IF i > Len(texts) THEN <<>>
    ELSE texts[i] \o <<NL>> \o Plain(texts, i + 1)

EndsInThreeNewlines(t) ==
    /\ Len(t) >= 3
    /\ \A i \in (Len(t) - 2)..Len(t) : t[i] = NL

\* the text without one trailing "\n\n\n"
WithoutThreeNewlines(t) ==
    IF EndsInThreeNewlines(t) THEN [i \in 1..(Len(t) - 3) |-> t[i]] ELSE t

HasSiblings == fpc = "returned" /\ ~ul.absent /\ Len(ItemTexts) >= 2

C8_FullyItemizedUnprefixed ==
    (/\ fpc = "returned"
     /\ ~ul.absent
     /\ Len(ul.children) >= 2
     /\ \A i \in 1..Len(ul.children) : ul.children[i].tag = "li")
    => formatted = Plain(ItemTexts, 1)

=============================================================================
